---- MODULE Spec2Model ----
(***************************************************************************)
(* asana2sql/Project.py: class Project, which mirrors the tasks of one     *)
(* Asana project into one SQL table.  The state is one Project instance    *)
(* (its configuration, field lists and two caches), the remote project it  *)
(* reads, the table it writes, and the statements it hands to the database *)
(* client.  synchronize() and export() advance one database statement per  *)
(* step, so that a failing statement or a crash can end a run after any    *)
(* prefix of its statements; every other method is one step.               *)
(***************************************************************************)
EXTENDS Integers, Sequences, FiniteSets, TLC

(* ------------------------------ bounds --------------------------------- *)

\* longest top-level task list of the small remote projects
MaxTop == 2
\* longest subtask list of one task
MaxSub == 1
\* changes of the remote project per behaviour
MaxRemoteChanges == 1
\* remote calls of one kind one instance makes against a project that does not exist
MaxCalls == 2

\* len(result) >= 50
TruncationThreshold == 50

(* ------------------------------ values --------------------------------- *)

\* identities (A, B, C) and names of the small remote projects
TaskIds == {1, 2, 3}
\* names are numbered: 101 is "x", 102 is "y"
Names == {101, 102}
\* the sizes of the large top-level lists, around the threshold
BulkSizes == {TruncationThreshold - 1, TruncationThreshold, TruncationThreshold + 1}

\* a remote record: a mapping keyed by attribute name
Record(i, n) == [id |-> i, name |-> n]
SmallTasks == {Record(i, n) : i \in TaskIds, n \in Names}

\* field descriptors: sql_name "" is Python's None (no column)
IdField == [sql_name |-> "id", attr |-> "id", required |-> {"id"}]
NameField == [sql_name |-> "name", attr |-> "name", required |-> {"name"}]
ProjectsField == [sql_name |-> "", attr |-> "id", required |-> {"id", "projects"}]

\* names are sequences of characters
ConfiguredName == <<"t", "-", "1">>
RemoteProjectName == <<"p", " ", "q">>
NoName == <<>>
Alnum == {"t", "p", "q", "1", "_"}

\* a cache attribute: has = FALSE is Python's None
NoTasks == [has |-> FALSE, val |-> <<>>]
NoProjectData == [has |-> FALSE, val |-> [name |-> NoName]]
Cached(v) == [has |-> TRUE, val |-> v]

\* rows of the project-membership table, which this class only reads
Memberships == {[project_id |-> 7, task_id |-> 1], [project_id |-> 8, task_id |-> 2]}
ProjectIds == {7, 8}

(* ------------------------------ helpers -------------------------------- *)

Range(s) == {s[i] : i \in DOMAIN s}

RECURSIVE Flatten(_)
\* itertools.chain.from_iterable over a list of lists
Flatten(ls) == IF ls = <<>> THEN <<>> ELSE Head(ls) \o Flatten(Tail(ls))

IsDirect(f) == f.sql_name # ""
IsIndirect(f) == f.sql_name = ""

\* util.sql_safe_name: every character that is not alphanumeric becomes "_"
sql_safe_name(n) == [i \in DOMAIN n |-> IF n[i] \in Alnum THEN n[i] ELSE "_"]

\* field.get_data_from_object(task) of a simple field
get_data_from_object(f, task) == task[f.attr]

(* ------------------------------- state --------------------------------- *)

VARIABLES
    fields,              \* the fields argument of __init__, in declaration order
    config,              \* [table_name, with_subtasks]
    remote,              \* the Asana side: [project, top, subs]
    project_data_cache,  \* self._project_data_cache
    task_cache,          \* self._task_cache
    db,                  \* the table: [exists, pk, rows]
    pc,                  \* "idle", or the loop a running synchronize()/export() is in
    todo,                \* the tasks the running upsert loop has not reached yet
    ids_to_remove,       \* the stale identities the running delete loop has not reached yet
    run,                 \* the running or last synchronize()/export(): what it read at its start
    log,                 \* the statements and extracts of the running or last operation
    last,                \* the last operation: [op, status, value]
    calls,               \* remote calls made by this instance: [project, top, sub, sent]
    warnings,            \* truncation warnings printed by this instance
    synced,              \* the task list of the last completed synchronize(), while no statement has written since
    injectable,          \* a failure (a failing call, statement or extract, a crash) can still be injected
    changes              \* remote changes so far

vars == <<fields, config, remote, project_data_cache, task_cache, db, pc, todo,
          ids_to_remove, run, log, last, calls, warnings, synced, injectable, changes>>

(* ------------------------- the instance's fields ----------------------- *)

\* mutant of _add_field: every field counts as direct
AllFieldsDirect == fields

\* _add_field over the fields argument: the fields with a sql_name, in order
direct_fields == SelectSeq(fields, IsDirect)
\* _add_field over the fields argument: the fields without a sql_name, in order
indirect_fields == SelectSeq(fields, IsIndirect)

\* mutant of _id_field(): the last direct field
LastDirectField == direct_fields[Len(direct_fields)]

\* _id_field(): the first direct field
id_field == direct_fields[1]

\* the column list ",".join(field.sql_name for field in self._direct_fields)
columns == [i \in DOMAIN direct_fields |-> direct_fields[i].sql_name]

\* _required_fields(): the set of attributes some field requires
required_fields == UNION {fields[i].required : i \in DOMAIN fields}

\* mutant of _required_fields: a list, one entry per field that requires the attribute
ProjectionPerField ==
    [a \in required_fields |-> Cardinality({i \in DOMAIN fields : a \in fields[i].required})]

\* fields=",".join(self._required_fields()): how many times the projection of a task
\* call names each attribute.  A set is joined, so each element is named once
projection == [a \in required_fields |-> 1]

(* ----------------------- project data and table name ------------------- *)

\* mutant of table_name(): the configured name is never taken
NameIgnored == FALSE

\* table_name() takes the configured name when it is truthy
NameConfigured == config.table_name # NoName

\* _project_data() calls find_by_id: the cache is None
ProjectFetchNeeded == ~project_data_cache.has

\* _project_data(): the cache after the call (unchanged when find_by_id raises)
ProjectDataAfter ==
    IF project_data_cache.has THEN project_data_cache
    ELSE IF remote.project.exists THEN Cached([name |-> remote.project.name])
    ELSE NoProjectData

\* table_name() raises NoSuchProjectException
TableNameFails == ~NameConfigured /\ ProjectFetchNeeded /\ ~remote.project.exists

\* the cache after table_name()
ProjectDataAfterTableName == IF NameConfigured THEN project_data_cache ELSE ProjectDataAfter

\* the remote calls counted after table_name()
CallsAfterTableName ==
    IF ~NameConfigured /\ ProjectFetchNeeded
    THEN [calls EXCEPT !.project = @ + 1] ELSE calls

\* table_name(): the value returned when it does not raise
table_name ==
    sql_safe_name(IF NameConfigured THEN config.table_name
                  ELSE ProjectDataAfter.val.name)

(* ------------------------------- tasks --------------------------------- *)

\* mutant of the cache test: _tasks() fetches on every call
AlwaysFetch == TRUE

\* _tasks() calls the remote: the cache is None
TaskFetchNeeded == ~task_cache.has

\* tasks.subtasks(task_id): the subtasks of a task, none for a task without any
subtasks(task_id) == IF task_id \in DOMAIN remote.subs THEN remote.subs[task_id] ELSE <<>>

\* the subtask lists of the top-level result, one remote call per task of it
subtask_lists(result) == [i \in DOMAIN result |-> subtasks(result[i].id)]

\* _tasks(): the list built when no call fails
FetchedTasks ==
    IF config.with_subtasks
    THEN remote.top \o Flatten(subtask_lists(remote.top))
    ELSE remote.top

\* mutant of the subtask loop: one subtask call per record, subtasks included
NumTaskCallsNested ==
    1 + (IF config.with_subtasks THEN Len(FetchedTasks) ELSE 0)

\* the remote task calls _tasks() makes when none fails
NumTaskCalls == 1 + (IF config.with_subtasks THEN Len(remote.top) ELSE 0)

\* mutant of the threshold test: len(result) > 50
WarnsAfterStrict(result) == IF Len(result) > TruncationThreshold THEN 1 ELSE 0

\* _tasks(): the warning is printed after the top-level call returned
WarnsAfter(result) == IF Len(result) >= TruncationThreshold THEN 1 ELSE 0

\* _tasks(): the value returned when no call fails
TasksValue == IF task_cache.has THEN task_cache.val ELSE FetchedTasks

\* asana_task_ids(): set(task.get("id") for task in self._tasks())
asana_task_ids == {TasksValue[i].id : i \in DOMAIN TasksValue}

(* ------------------------------ the store ------------------------------ *)

\* a statement handed to the database client
Stmt(kind, cols, params) ==
    [kind |-> kind, table |-> table_name, cols |-> cols, params |-> params, ok |-> TRUE]

\* a statement the store refused
Failed(stmt) == [stmt EXCEPT !.ok = FALSE]

\* a field's get_data_from_object, as the instance calls it on an indirect field
Extract(f, task) == [kind |-> "extract", table |-> <<>>, cols |-> <<f.attr>>,
                     params |-> <<get_data_from_object(f, task)>>, ok |-> TRUE]

IndexOf(s, x) == CHOOSE i \in DOMAIN s : s[i] = x

\* the row an INSERT names: one value per column
RowOf(cols, params) == [c \in Range(cols) |-> params[IndexOf(cols, c)]]

\* mutants of INSERT_OR_REPLACE_TEMPLATE: the new row replaces every row; the new
\* row is added and replaces none
UpsertedAlone(rows, pk, row) == {row}
Inserted(rows, pk, row) == rows \cup {row}

\* INSERT OR REPLACE: the rows with the new row's primary key give way to it
Upserted(rows, pk, row) == {r \in rows : r[pk] # row[pk]} \cup {row}

\* DELETE ... WHERE id_column = ?
Deleted(rows, id_column, value) == {r \in rows : r[id_column] # value}

\* SELECT one column: the values of that column
Selected(rows, column) == {r[column] : r \in rows}

\* insert_or_replace(task): the parameters, one per direct field
params_of(task) == [i \in DOMAIN direct_fields |-> get_data_from_object(direct_fields[i], task)]

\* insert_or_replace(task): the statement written
UpsertStmt(task) == Stmt("upsert", columns, params_of(task))

\* insert_or_replace(task): the indirect fields' extracts, in order
IndirectExtracts(task) == [i \in DOMAIN indirect_fields |-> Extract(indirect_fields[i], task)]

\* mutant of insert_or_replace: a record whose row is in the table is not written
insert_if_changed(task) ==
    IF RowOf(columns, params_of(task)) \in db.rows THEN IndirectExtracts(task)
    ELSE <<UpsertStmt(task)>> \o IndirectExtracts(task)

\* insert_or_replace(task): the statement written, then the indirect fields' extracts
insert_or_replace(task) == <<UpsertStmt(task)>> \o IndirectExtracts(task)

\* delete(task_id): the statement written
DeleteStmt(task_id) == Stmt("delete", <<id_field.sql_name>>, <<task_id>>)

\* db_task_ids(): the statement read
IdReadStmt == Stmt("read", <<id_field.sql_name>>, <<>>)

\* create_table(): the statement written
CreateStmt == Stmt("create", columns, <<>>)

(* ------------------------------ Init ----------------------------------- *)

SeqsUpTo(S, n) == UNION {[1..k -> S] : k \in 0..n}
Injective(f) == \A i, j \in DOMAIN f : f[i] = f[j] => i = j

\* remote.subs maps the tasks that have subtasks to their subtask lists
EmptySubs == <<>>
SubsOf(p, l) == p :> l

\* a list of records lists each identity once, in ascending order
Ascending(l) == \A i, j \in DOMAIN l : i < j => l[i].id < l[j].id
\* the class only compares identities for equality, so the tasks of a top-level list
\* are numbered from 1; the table and the subtasks range over every identity
SmallTopLists == {l \in SeqsUpTo(SmallTasks, MaxTop) : \A i \in DOMAIN l : l[i].id = i}
SubtaskPool == {Record(i, 102) : i \in TaskIds}
SmallSubLists == {l \in SeqsUpTo(SubtaskPool, MaxSub) : Ascending(l)}
\* at most one task of the top-level list has subtasks
SmallSubMaps(top) ==
    {EmptySubs} \cup {SubsOf(top[i].id, l) : i \in DOMAIN top, l \in SmallSubLists \ {<<>>}}

\* the top-level list of a large project: tasks 1..n
BulkTop(n) == [i \in 1..n |-> Record(i, 101)]
BulkSubMaps ==
    {EmptySubs, SubsOf(1, <<Record(TruncationThreshold + 2, 102), Record(TruncationThreshold + 3, 102)>>)}

\* the lists of distinct fields that hold a direct field: _id_field() takes the first
\* one, whichever it is
FieldPool == {IdField, NameField, ProjectsField}
FieldLists ==
    {f \in SeqsUpTo(FieldPool, Cardinality(FieldPool)) :
        /\ Injective(f)
        /\ SelectSeq(f, IsDirect) # <<>>}
StandardFields == <<IdField, NameField, ProjectsField>>

NoTable == [exists |-> FALSE, pk |-> "", rows |-> {}]
\* the table create_table() makes, holding a row for each given record
TableOf(records) ==
    [exists |-> TRUE, pk |-> id_field.sql_name,
     rows |-> {RowOf(columns, params_of(r)) : r \in records}]
\* one row per identity, each holding the name "x"
SmallTables == {TableOf({Record(i, 101) : i \in S}) : S \in SUBSET TaskIds}

NotSynced == [valid |-> FALSE, tasks |-> <<>>]
NoRun == [op |-> "none", local_ids |-> {}, tasks |-> <<>>, start_rows |-> {},
          stale |-> {}, prior |-> NotSynced, prev |-> "none"]
\* sent: the projections the task calls carried
NoCalls == [project |-> 0, top |-> 0, sub |-> 0, sent |-> {}]
\* how an operation ended, and how many remote changes had happened by then
Outcome(op, status, value) == [op |-> op, status |-> status, value |-> value, at |-> changes]

\* __init__: both caches None
Constructed ==
    /\ project_data_cache = NoProjectData
    /\ task_cache = NoTasks
    /\ calls = NoCalls
    /\ warnings = 0

\* __init__ again: the state of a new instance
Reconstructed ==
    /\ project_data_cache' = NoProjectData
    /\ task_cache' = NoTasks
    /\ calls' = NoCalls
    /\ warnings' = 0

\* nothing has run yet
Idle ==
    /\ Constructed
    /\ pc = "idle"
    /\ todo = <<>>
    /\ ids_to_remove = {}
    /\ run = NoRun
    /\ log = <<>>
    /\ last = Outcome("__init__", "ok", <<>>)
    /\ synced = NotSynced

InitRest == injectable = TRUE /\ changes = 0 /\ Idle

\* small projects and tables of every shape, under the standard fields
InitSmall ==
    /\ fields = StandardFields
    /\ config \in [table_name : {ConfiguredName}, with_subtasks : BOOLEAN]
    /\ \E top \in SmallTopLists :
       \E subs \in (IF config.with_subtasks THEN SmallSubMaps(top)
                    ELSE {EmptySubs, SubsOf(1, <<Record(3, 102)>>)}) :
          remote = [project |-> [exists |-> TRUE, name |-> RemoteProjectName],
                    top |-> top, subs |-> subs]
    /\ db \in SmallTables

\* every field list, over a small project and table
InitFields ==
    /\ fields \in FieldLists
    /\ config \in [table_name : {ConfiguredName, NoName}, with_subtasks : BOOLEAN]
    /\ remote = [project |-> [exists |-> TRUE, name |-> RemoteProjectName],
                 top |-> <<Record(1, 101), Record(3, 102)>>,
                 subs |-> SubsOf(3, <<Record(2, 102)>>)]
    /\ db \in {NoTable, TableOf({Record(1, 102), Record(2, 101)})}

\* every way to name the table, missing project included
InitConfig ==
    /\ fields = StandardFields
    /\ config \in [table_name : {ConfiguredName, NoName}, with_subtasks : {FALSE}]
    /\ \E e \in BOOLEAN :
       \E top \in {<<>>, <<Record(1, 101), Record(3, 102)>>} :
          remote = [project |-> [exists |-> e, name |-> RemoteProjectName],
                    top |-> top, subs |-> EmptySubs]
    /\ db \in {NoTable, TableOf({Record(1, 102), Record(2, 101)})}

\* a project with a subtask, present or missing, under every configuration
InitFetch ==
    /\ fields = StandardFields
    /\ config \in [table_name : {ConfiguredName, NoName}, with_subtasks : BOOLEAN]
    /\ \E e \in BOOLEAN :
          remote = [project |-> [exists |-> e, name |-> RemoteProjectName],
                    top |-> <<Record(1, 101), Record(2, 102)>>,
                    subs |-> SubsOf(2, <<Record(3, 102)>>)]
    /\ db \in {NoTable, TableOf({Record(3, 101)})}

\* large projects, around the truncation threshold
InitBulk ==
    /\ fields = StandardFields
    /\ config \in [table_name : {ConfiguredName}, with_subtasks : BOOLEAN]
    /\ \E n \in BulkSizes : \E subs \in BulkSubMaps :
          remote = [project |-> [exists |-> TRUE, name |-> RemoteProjectName],
                    top |-> BulkTop(n), subs |-> subs]
    /\ db = TableOf({Record(TruncationThreshold + 2, 101)})

\* Init: a project and a table of every configuration
Init == InitConfig /\ InitRest

(* ------------------------- one-step operations ------------------------- *)

\* what no method of the instance assigns
Env == <<fields, config, remote, changes>>
\* the locals of a running synchronize()/export()
Locals == <<pc, todo, ids_to_remove>>

\* find_by_id against a missing project is retried a bounded number of times
ProjectCallable == project_data_cache.has \/ remote.project.exists \/ calls.project < MaxCalls
NameCallable == NameConfigured \/ ProjectCallable
\* find_by_project against a missing project is retried a bounded number of times
TasksCallable == task_cache.has \/ remote.project.exists \/ calls.top < MaxCalls

\* mutant of _tasks(): what was fetched before the k-th call failed is cached
PartialKept(k) == Cached(IF k > 1 THEN remote.top ELSE <<>>)

\* _tasks() when its k-th remote call raises: the assignment of the cache is not
\* reached, and the cache stays None
CacheAfterFailure(k) == task_cache

\* _tasks(): every way the call can end.  find_by_project raises NotFoundError for
\* a missing project; any remote call can fail; nothing is cached when one does
TaskOutcomes ==
    IF ~TaskFetchNeeded
    THEN {[status |-> "ok", cache |-> task_cache, top |-> 0, sub |-> 0, warn |-> 0, fault |-> 0,
           sent |-> {}]}
    ELSE IF ~remote.project.exists
    THEN {[status |-> "NotFoundError", cache |-> NoTasks, top |-> 1, sub |-> 0,
           warn |-> 0, fault |-> 0, sent |-> {projection}]}
    ELSE {[status |-> "ok", cache |-> Cached(FetchedTasks), top |-> 1,
           sub |-> NumTaskCalls - 1, warn |-> WarnsAfter(remote.top), fault |-> 0,
           sent |-> {projection}]}
         \cup {[status |-> "FetchError", cache |-> CacheAfterFailure(k), top |-> 1, sub |-> k - 1,
                warn |-> IF k > 1 THEN WarnsAfter(remote.top) ELSE 0, fault |-> 1,
                sent |-> {projection}] :
               k \in IF injectable THEN 1..NumTaskCalls ELSE {}}

CallsPlus(c, o) == [c EXCEPT !.top = @ + o.top, !.sub = @ + o.sub, !.sent = @ \cup o.sent]

\* table_name()
TableNameOp ==
    /\ pc = "idle" /\ NameCallable
    /\ project_data_cache' = ProjectDataAfterTableName
    /\ calls' = CallsAfterTableName
    /\ log' = <<>>
    /\ last' = IF TableNameFails THEN Outcome("table_name", "NoSuchProject", <<>>)
               ELSE Outcome("table_name", "ok", table_name)
    /\ run' = NoRun
    /\ UNCHANGED <<Env, Locals, task_cache, db, warnings, synced, injectable>>

\* project_name()
ProjectNameOp ==
    /\ pc = "idle" /\ ProjectCallable
    /\ project_data_cache' = ProjectDataAfter
    /\ calls' = IF ProjectFetchNeeded THEN [calls EXCEPT !.project = @ + 1] ELSE calls
    /\ log' = <<>>
    /\ last' = IF ProjectDataAfter.has
               THEN Outcome("project_name", "ok", ProjectDataAfter.val.name)
               ELSE Outcome("project_name", "NoSuchProject", <<>>)
    /\ run' = NoRun
    /\ UNCHANGED <<Env, Locals, task_cache, db, warnings, synced, injectable>>

\* tasks()
TasksOp ==
    /\ pc = "idle" /\ TasksCallable
    /\ \E o \in TaskOutcomes :
         /\ task_cache' = o.cache
         /\ calls' = CallsPlus(calls, o)
         /\ warnings' = warnings + o.warn
         /\ injectable' = (injectable /\ o.fault = 0)
         /\ last' = Outcome("tasks", o.status, o.cache.val)
    /\ log' = <<>>
    /\ run' = NoRun
    /\ UNCHANGED <<Env, Locals, project_data_cache, db, synced>>

\* asana_task_ids()
AsanaTaskIdsOp ==
    /\ pc = "idle" /\ TasksCallable
    /\ \E o \in TaskOutcomes :
         /\ task_cache' = o.cache
         /\ calls' = CallsPlus(calls, o)
         /\ warnings' = warnings + o.warn
         /\ injectable' = (injectable /\ o.fault = 0)
         /\ last' = Outcome("asana_task_ids", o.status, {o.cache.val[i].id : i \in DOMAIN o.cache.val})
    /\ log' = <<>>
    /\ run' = NoRun
    /\ UNCHANGED <<Env, Locals, project_data_cache, db, synced>>

\* mutant of CREATE_TABLE_TEMPLATE: the table is made anew
CreatedAnew(table) == TableOf({})

\* CREATE TABLE IF NOT EXISTS: an existing table is left as it is
Created(table) == IF table.exists THEN table ELSE TableOf({})

\* create_table(): CREATE TABLE IF NOT EXISTS, the id field's column the primary key
CreateTable ==
    /\ pc = "idle" /\ NameCallable
    /\ project_data_cache' = ProjectDataAfterTableName
    /\ calls' = CallsAfterTableName
    /\ IF TableNameFails
       THEN /\ log' = <<>>
            /\ db' = db
            /\ last' = Outcome("create_table", "NoSuchProject", <<>>)
       ELSE /\ log' = <<CreateStmt>>
            /\ db' = Created(db)
            /\ last' = Outcome("create_table", "ok", <<>>)
    /\ run' = NoRun
    /\ UNCHANGED <<Env, Locals, task_cache, warnings, synced, injectable>>

\* the store can run a statement over the table: the join names the column "id"
Runnable(stmt) == db.exists /\ (stmt.kind = "read_join" => "id" \in Range(columns))

\* a method that resolves the table name and then reads the table
ReadOp(op, stmt, value) ==
    /\ pc = "idle" /\ NameCallable
    /\ project_data_cache' = ProjectDataAfterTableName
    /\ calls' = CallsAfterTableName
    /\ IF TableNameFails
       THEN /\ log' = <<>>
            /\ last' = Outcome(op, "NoSuchProject", <<>>)
       ELSE IF ~Runnable(stmt)
       THEN /\ log' = <<Failed(stmt)>>
            /\ last' = Outcome(op, "StoreError", <<>>)
       ELSE /\ log' = <<stmt>>
            /\ last' = Outcome(op, "ok", value)
    /\ run' = NoRun
    /\ UNCHANGED <<Env, Locals, task_cache, db, warnings, synced, injectable>>

\* db_task_ids()
DbTaskIds == ReadOp("db_task_ids", IdReadStmt, Selected(db.rows, id_field.sql_name))

\* db_select_all()
DbSelectAll == ReadOp("db_select_all", Stmt("read", columns, <<>>), db.rows)

\* db_select_all_in_project(project_id): the rows joined to a membership of the project
DbSelectAllInProject ==
    \E project_id \in ProjectIds :
        ReadOp("db_select_all_in_project", Stmt("read_join", columns, <<project_id>>),
               {r \in db.rows : \E m \in Memberships :
                                   m.task_id = r["id"] /\ m.project_id = project_id})

\* delete(task_id), called from outside synchronize()
DeleteOp ==
    /\ pc = "idle" /\ NameCallable
    /\ \E task_id \in TaskIds :
        /\ project_data_cache' = ProjectDataAfterTableName
        /\ calls' = CallsAfterTableName
        /\ IF TableNameFails
           THEN /\ log' = <<>>
                /\ last' = Outcome("delete", "NoSuchProject", <<>>)
                /\ UNCHANGED <<db, synced>>
           ELSE IF ~db.exists
           THEN /\ log' = <<Failed(DeleteStmt(task_id))>>
                /\ last' = Outcome("delete", "StoreError", <<>>)
                /\ UNCHANGED <<db, synced>>
           ELSE /\ log' = <<DeleteStmt(task_id)>>
                /\ last' = Outcome("delete", "ok", <<>>)
                /\ db' = [db EXCEPT !.rows = Deleted(@, id_field.sql_name, task_id)]
                /\ synced' = NotSynced
    /\ run' = NoRun
    /\ UNCHANGED <<Env, Locals, task_cache, warnings, injectable>>

(* ----------------------- synchronize() and export() -------------------- *)

\* mutants of the set difference: everything local, the difference reversed, nothing
StaleIdsAllLocal(db_task_ids, remote_ids) == db_task_ids
StaleIdsReversed(db_task_ids, remote_ids) == remote_ids \ db_task_ids
StaleIdsNone(db_task_ids, remote_ids) == {}

\* synchronize(): ids_to_remove = db_task_ids.difference(asana_task_ids)
StaleIds(db_task_ids, remote_ids) == db_task_ids \ remote_ids

\* mutants of the loop order: synchronize() returns after its upserts; the delete
\* loop runs first
NextPcNoDeletes(op, tasks_left, stale_left) ==
    IF tasks_left # <<>> THEN "upsert" ELSE "idle"
NextPcDeletesFirst(op, tasks_left, stale_left) ==
    IF op = "synchronize" /\ stale_left # {} THEN "delete"
    ELSE IF tasks_left # <<>> THEN "upsert"
    ELSE "idle"

\* where a run goes after a statement: the upsert loop, then the delete loop
NextPc(op, tasks_left, stale_left) ==
    IF tasks_left # <<>> THEN "upsert"
    ELSE IF op = "synchronize" /\ stale_left # {} THEN "delete"
    ELSE "idle"

\* mutant of the propagation: the failure is caught and the loop goes on
EndsCaught(op, status) ==
    /\ pc' = pc
    /\ todo' = todo
    /\ ids_to_remove' = ids_to_remove
    /\ last' = Outcome(op, status, <<>>)

\* the run ends, by returning or by raising
Ends(op, status) ==
    /\ pc' = "idle"
    /\ todo' = <<>>
    /\ ids_to_remove' = {}
    /\ last' = Outcome(op, status, <<>>)

\* the run goes on after a statement, or returns after its last one
Continues(op, tasks_left, stale_left) ==
    /\ pc' = NextPc(op, tasks_left, stale_left)
    /\ todo' = tasks_left
    /\ ids_to_remove' = stale_left
    /\ last' = Outcome(op, IF NextPc(op, tasks_left, stale_left) = "idle" THEN "ok"
                           ELSE "running", <<>>)

\* how the last operation ended, if it was a synchronize() that did not return:
\* the process died ("crashed"), or a statement or an extract raised ("raised")
PrevRun ==
    IF last.op = "synchronize" /\ last.status = "crashed" THEN "crashed"
    ELSE IF last.op = "synchronize" /\ last.status \in {"StoreError", "FieldError"} THEN "raised"
    ELSE "none"

\* synchronize(), up to its first upsert: db_task_ids(), asana_task_ids() and the
\* set difference
SyncBegin ==
    /\ pc = "idle" /\ NameCallable
    /\ project_data_cache' = ProjectDataAfterTableName
    /\ IF TableNameFails
       THEN /\ log' = <<>>
            /\ Ends("synchronize", "NoSuchProject")
            /\ calls' = CallsAfterTableName
            /\ run' = NoRun
            /\ UNCHANGED <<task_cache, warnings, injectable, synced>>
       ELSE IF ~db.exists
       THEN /\ log' = <<Failed(IdReadStmt)>>
            /\ Ends("synchronize", "StoreError")
            /\ calls' = CallsAfterTableName
            /\ run' = NoRun
            /\ UNCHANGED <<task_cache, warnings, injectable, synced>>
       ELSE /\ TasksCallable
            /\ log' = <<IdReadStmt>>
            /\ \E o \in TaskOutcomes :
                /\ task_cache' = o.cache
                /\ calls' = CallsPlus(CallsAfterTableName, o)
                /\ warnings' = warnings + o.warn
                /\ injectable' = (injectable /\ o.fault = 0)
                /\ IF o.status # "ok"
                   THEN /\ Ends("synchronize", o.status)
                        /\ run' = NoRun
                        /\ UNCHANGED synced
                   ELSE LET db_task_ids == Selected(db.rows, id_field.sql_name)
                            stale == StaleIds(db_task_ids, asana_task_ids)
                        IN /\ run' = [op |-> "synchronize", local_ids |-> db_task_ids,
                                      tasks |-> o.cache.val, start_rows |-> db.rows,
                                      stale |-> stale, prior |-> synced,
                                      prev |-> PrevRun]
                           /\ Continues("synchronize", o.cache.val, stale)
                           /\ synced' = IF NextPc("synchronize", o.cache.val, stale) = "idle"
                                        THEN [valid |-> TRUE, tasks |-> o.cache.val]
                                        ELSE synced
    /\ UNCHANGED <<Env, db>>

\* export(), up to its first upsert: _tasks()
ExportBegin ==
    /\ pc = "idle" /\ TasksCallable
    /\ log' = <<>>
    /\ \E o \in TaskOutcomes :
        /\ task_cache' = o.cache
        /\ calls' = CallsPlus(calls, o)
        /\ warnings' = warnings + o.warn
        /\ injectable' = (injectable /\ o.fault = 0)
        /\ IF o.status # "ok"
           THEN /\ Ends("export", o.status)
                /\ run' = NoRun
           ELSE /\ run' = [op |-> "export",
                           local_ids |-> IF db.exists THEN Selected(db.rows, id_field.sql_name)
                                         ELSE {},
                           tasks |-> o.cache.val, start_rows |-> db.rows,
                           stale |-> {}, prior |-> synced,
                           prev |-> PrevRun]
                /\ Continues("export", o.cache.val, {})
    /\ UNCHANGED <<Env, project_data_cache, db, synced>>

\* insert_or_replace(task) for the next task of the loop: the parameters, the table
\* name, the statement, the indirect fields' extracts
UpsertStep ==
    /\ pc = "upsert" /\ NameCallable
    /\ project_data_cache' = ProjectDataAfterTableName
    /\ calls' = CallsAfterTableName
    /\ LET task == Head(todo)
       IN IF TableNameFails
          THEN /\ log' = log
               /\ Ends(run.op, "NoSuchProject")
               /\ UNCHANGED <<db, synced>>
          ELSE IF ~db.exists
          THEN /\ log' = Append(log, Failed(UpsertStmt(task)))
               /\ Ends(run.op, "StoreError")
               /\ UNCHANGED <<db, synced>>
          ELSE /\ log' = log \o insert_or_replace(task)
               /\ db' = [db EXCEPT !.rows = Upserted(@, db.pk, RowOf(columns, params_of(task)))]
               /\ Continues(run.op, Tail(todo), ids_to_remove)
               /\ synced' = IF run.op = "synchronize"
                               /\ NextPc(run.op, Tail(todo), ids_to_remove) = "idle"
                            THEN [valid |-> TRUE, tasks |-> run.tasks]
                            ELSE NotSynced
    /\ UNCHANGED <<Env, task_cache, warnings, injectable, run>>

\* insert_or_replace(task) raises: a direct field's extract, the statement, or the
\* extract of the j-th indirect field, which runs after the row is written
UpsertFails ==
    /\ pc = "upsert" /\ injectable
    /\ injectable' = FALSE
    /\ LET task == Head(todo)
       IN \/ /\ log' = log
             /\ Ends(run.op, "FieldError")
             /\ UNCHANGED <<db, synced, project_data_cache, calls>>
          \/ /\ ~TableNameFails /\ NameCallable
             /\ project_data_cache' = ProjectDataAfterTableName
             /\ calls' = CallsAfterTableName
             /\ log' = Append(log, Failed(UpsertStmt(task)))
             /\ Ends(run.op, "StoreError")
             /\ UNCHANGED <<db, synced>>
          \/ /\ ~TableNameFails /\ NameCallable /\ db.exists
             /\ project_data_cache' = ProjectDataAfterTableName
             /\ calls' = CallsAfterTableName
             /\ \E j \in DOMAIN indirect_fields :
                  log' = Append(log, UpsertStmt(task)) \o SubSeq(IndirectExtracts(task), 1, j - 1)
             /\ db' = [db EXCEPT !.rows = Upserted(@, db.pk, RowOf(columns, params_of(task)))]
             /\ synced' = NotSynced
             /\ Ends(run.op, "FieldError")
    /\ UNCHANGED <<Env, task_cache, warnings, run>>

\* delete(id_to_remove) for some identity the loop has not reached yet
DeleteStep ==
    /\ pc = "delete"
    /\ \E id_to_remove \in ids_to_remove :
        /\ log' = Append(log, DeleteStmt(id_to_remove))
        /\ db' = [db EXCEPT !.rows = Deleted(@, id_field.sql_name, id_to_remove)]
        /\ Continues(run.op, <<>>, ids_to_remove \ {id_to_remove})
        /\ synced' = IF ids_to_remove = {id_to_remove}
                     THEN [valid |-> TRUE, tasks |-> run.tasks]
                     ELSE NotSynced
    /\ UNCHANGED <<Env, project_data_cache, task_cache, calls, warnings, injectable, run>>

\* delete(id_to_remove) raises: the store refuses the statement
DeleteFails ==
    /\ pc = "delete" /\ injectable
    /\ injectable' = FALSE
    /\ \E id_to_remove \in ids_to_remove :
        log' = Append(log, Failed(DeleteStmt(id_to_remove)))
    /\ Ends(run.op, "StoreError")
    /\ UNCHANGED <<Env, project_data_cache, task_cache, db, calls, warnings, run, synced>>

(* ---------------------------- the environment -------------------------- *)

\* the process dies inside a run; the next run is a new Project's
Crash ==
    /\ pc # "idle" /\ injectable
    /\ injectable' = FALSE
    /\ Reconstructed
    /\ Ends(run.op, "crashed")
    /\ UNCHANGED <<Env, db, log, run, synced>>

\* the remote project changes: its first task is gone, or the project is
RemoteChange ==
    /\ changes < MaxRemoteChanges
    /\ changes' = changes + 1
    /\ \/ /\ remote.top # <<>>
          /\ remote' = [remote EXCEPT !.top = Tail(@)]
       \/ /\ remote.project.exists
          /\ remote' = [remote EXCEPT !.project.exists = FALSE]
    /\ UNCHANGED <<fields, config, project_data_cache, task_cache, db, Locals, run, log, last,
                   calls, warnings, synced, injectable>>

\* every method of the class, and the environment
Next ==
    \/ TableNameOp \/ ProjectNameOp \/ TasksOp \/ AsanaTaskIdsOp
    \/ CreateTable \/ DbTaskIds \/ DbSelectAll \/ DbSelectAllInProject \/ DeleteOp
    \/ SyncBegin \/ ExportBegin \/ UpsertStep \/ UpsertFails \/ DeleteStep \/ DeleteFails
    \/ Crash \/ RemoteChange

Spec == Init /\ [][Next]_vars

\* runs of synchronize() and export() over every small project and table, with
\* failing statements and crashes
NextSync ==
    \/ SyncBegin \/ ExportBegin \/ UpsertStep \/ UpsertFails \/ DeleteStep \/ DeleteFails
    \/ Crash

InitSync == InitSmall /\ InitRest

SpecSync == InitSync /\ [][NextSync]_vars

\* the statements of every method, over every field list
NextFields ==
    \/ CreateTable \/ DbTaskIds \/ DbSelectAll \/ DbSelectAllInProject \/ DeleteOp
    \/ SyncBegin \/ ExportBegin \/ UpsertStep \/ DeleteStep

\* no failure is injected and the remote project does not change
InitSchema == InitFields /\ injectable = FALSE /\ changes = MaxRemoteChanges /\ Idle

SpecFields == InitSchema /\ [][NextFields]_vars

\* the fetches of both caches, with failing calls, and the runs that use them
NextFetch ==
    \/ TableNameOp \/ ProjectNameOp \/ TasksOp \/ AsanaTaskIdsOp
    \/ SyncBegin \/ ExportBegin \/ UpsertStep \/ DeleteStep
    \/ RemoteChange

InitFetching == InitFetch /\ InitRest

SpecFetch == InitFetching /\ [][NextFetch]_vars

\* fetches and runs over the large projects
NextBulk == TasksOp \/ SyncBegin \/ ExportBegin \/ UpsertStep \/ DeleteStep

\* no failure is injected into the long runs
InitLarge == InitBulk /\ injectable = FALSE /\ changes = 0 /\ Idle

SpecBulk == InitLarge /\ [][NextBulk]_vars

(* ------------------------------ properties ----------------------------- *)

\* a synchronize() has just returned
SyncCompleted ==
    pc = "idle" /\ run.op = "synchronize" /\ last.op = "synchronize" /\ last.status = "ok"

\* a synchronize() is running or was the last operation
InSync == run.op = "synchronize" /\ last.op = "synchronize"

\* the identities of a list of records
IdsOf(tasks) == {tasks[i].id : i \in DOMAIN tasks}

\* the identity-column values stored in the table
LocalIds == {r["id"] : r \in db.rows}

\* the statements of one kind in a log, with the refused ones
OfKind(l, kind) == SelectSeq(l, LAMBDA st : st.kind = kind)

\* the identities the delete statements of a log name
DeletedIds(l) == {l[i].params[1] : i \in {j \in DOMAIN l : l[j].kind = "delete"}}

\* the last record of each identity in a list
LastOf(tasks) ==
    {tasks[i] : i \in {j \in DOMAIN tasks : \A k \in DOMAIN tasks : k > j => tasks[k].id # tasks[j].id}}

\* the rows that mirror a list of records: one row per identity, holding the values of
\* its last record
Mirror(tasks) == {[c \in Range(columns) |-> IF c = "id" THEN t.id ELSE t.name] : t \in LastOf(tasks)}

\* C1: when synchronize() has run to completion, the identities stored in the table
\* are exactly the identities of the fetched records: no extra row, no missing row
Convergence == SyncCompleted => LocalIds = IdsOf(run.tasks)

\* C1 witness: an empty table, two fetched identities, and rows for those two only
ConvergenceWitness ==
    /\ SyncCompleted
    /\ run.start_rows = {}
    /\ IdsOf(run.tasks) = {1, 2}
    /\ LocalIds = {1, 2}

\* C2: a synchronize() that follows a completed synchronize() of the same task list,
\* with no write in between, finds nothing stale, issues no delete and leaves the
\* table as it found it
Idempotence ==
    (SyncCompleted /\ run.prior.valid /\ run.prior.tasks = run.tasks)
        => /\ db.rows = run.start_rows
           /\ run.stale = {}
           /\ OfKind(log, "delete") = <<>>

\* C2 witness: a second run over a non-empty task list that upserted again
IdempotenceWitness ==
    /\ SyncCompleted /\ run.prior.valid /\ run.prior.tasks = run.tasks
    /\ Len(run.tasks) = 2
    /\ Len(OfKind(log, "upsert")) = 2

\* C3: the delete statements of a synchronize() name identities of local_ids minus
\* remote_ids only, where local_ids is what the table held before the run, and a
\* completed run has named every one of them; the rows of the remote identities stay
DeletionIsDifference ==
    /\ InSync => DeletedIds(log) \subseteq (run.local_ids \ IdsOf(run.tasks))
    /\ SyncCompleted =>
          /\ DeletedIds(log) = run.local_ids \ IdsOf(run.tasks)
          /\ \A i \in run.local_ids \cap IdsOf(run.tasks) : i \in LocalIds

\* C3 witness: local {A, B, C}, remote {A, C}: B is deleted, A and C are upserted
DeletionWitness ==
    /\ SyncCompleted
    /\ run.local_ids = {1, 2, 3}
    /\ IdsOf(run.tasks) = {1, 3}
    /\ DeletedIds(log) = {2}
    /\ LocalIds = {1, 3}
    /\ Len(OfKind(log, "upsert")) = 2

\* C4: in the statements of a synchronize() the read of the local identities comes
\* first, and any delete comes after every upsert of the run: once a delete is
\* issued, one upsert per fetched task has been issued
Ordering ==
    (InSync /\ log # <<>>) =>
        /\ log[1].kind = "read"
        /\ \A i, j \in DOMAIN log : (i < j /\ log[i].kind = "delete") => log[j].kind = "delete"
        /\ OfKind(log, "delete") # <<>> => Len(OfKind(log, "upsert")) = Len(run.tasks)

\* C4 witness: a run that read, upserted twice and then deleted
OrderingWitness ==
    /\ InSync
    /\ Len(log) >= 4
    /\ log[2].kind = "upsert"
    /\ log[Len(log)].kind = "delete"

\* C7: a synchronize() that completes after an interrupted synchronize() over the
\* same remote state leaves local_ids = remote_ids and the rows an uninterrupted run
\* leaves: the mirror of the fetched task list
CrashRecovery ==
    (SyncCompleted /\ run.prev \in {"crashed", "raised"})
        => /\ LocalIds = IdsOf(run.tasks)
           /\ db.rows = Mirror(run.tasks)

\* every completed synchronize(), interrupted before or not, leaves the mirror
MirrorAfterSync == SyncCompleted => db.rows = Mirror(run.tasks)

\* C7 witness: the interrupted run had upserted a row ("y" is no initial name) and
\* left a stale row behind, which the complete run deleted
CrashRecoveryWitness ==
    /\ SyncCompleted /\ run.prev = "crashed"
    /\ \E r \in run.start_rows : r["name"] = 102
    /\ DeletedIds(log) # {}

\* the step is a crash: the next operation is a new instance's
IsCrash == pc # "idle" /\ pc' = "idle" /\ last'.status = "crashed"

\* C5: once an instance holds a fetched task list (project data), no later operation
\* of the instance calls the remote for it again or replaces it, and every later
\* call returns the cached value, whatever the remote project has become
SingleFetch ==
    [][~IsCrash =>
        /\ task_cache.has =>
             /\ task_cache' = task_cache
             /\ calls'.top = calls.top /\ calls'.sub = calls.sub
             /\ (last'.op = "tasks" /\ last'.status = "ok") => last'.value = task_cache.val
             /\ (last'.op = "asana_task_ids" /\ last'.status = "ok")
                    => last'.value = IdsOf(task_cache.val)
             /\ (run'.op # "none" /\ run' # run) => run'.tasks = task_cache.val
        /\ project_data_cache.has =>
             /\ project_data_cache' = project_data_cache
             /\ calls'.project = calls.project
             /\ (last'.op = "project_name" /\ last'.status = "ok")
                    => last'.value = project_data_cache.val.name
      ]_vars

\* C5 witness: tasks() ran after the remote project changed, made no second
\* top-level call and returned a list the remote no longer holds
SingleFetchWitness ==
    /\ last.op = "tasks" /\ last.status = "ok"
    /\ changes > 0 /\ last.at = changes
    /\ remote.project.exists
    /\ last.value # FetchedTasks
    /\ calls.top = 1

\* the operations that resolve the table name
NameOps == {"create_table", "export", "synchronize", "delete", "db_task_ids",
            "db_select_all", "db_select_all_in_project"}
Writes(l) == SelectSeq(l, LAMBDA st : st.kind \in {"create", "upsert", "delete"})

\* the last operation ran against a missing project, with no table name configured
\* and no project data cached, and no crash or failing extract ended it before
NotFoundCase ==
    /\ pc = "idle" /\ last.op \in NameOps /\ last.status \notin {"crashed", "FieldError"}
    /\ last.at = changes
    /\ ~NameConfigured /\ ~remote.project.exists /\ ~project_data_cache.has

\* C6: with the project not found and no table name configured, every operation
\* that needs the table name fails with NoSuchProjectException, having issued no
\* write statement
ProjectNotFound ==
    NotFoundCase => (last.status = "NoSuchProject" /\ Writes(log) = <<>>)

\* C6, for the operations that resolve the table name before anything else
ProjectNotFoundBeforeFetch ==
    (NotFoundCase /\ last.op # "export") => (last.status = "NoSuchProject" /\ Writes(log) = <<>>)

\* C6: export() fetches the tasks before it resolves the table name: against the
\* missing project it ends with the remote's own error, or returns when a task list
\* cached earlier is empty, and raises NoSuchProjectException only at the first
\* record of a cached list; it writes nothing in any case
ExportNotFound ==
    (NotFoundCase /\ last.op = "export") =>
        /\ Writes(log) = <<>>
        /\ last.status = (IF ~task_cache.has THEN "NotFoundError"
                          ELSE IF task_cache.val = <<>> THEN "ok"
                          ELSE "NoSuchProject")

RECURSIVE ConcatSubsFrom(_, _)
\* the subtasks of the i-th and later tasks of a top-level list, one list after another
ConcatSubsFrom(top, i) ==
    IF i > Len(top) THEN <<>> ELSE subtasks(top[i].id) \o ConcatSubsFrom(top, i + 1)

\* C8: the cached task list is the top-level tasks followed by the subtasks of each
\* top-level task, fetched with one top-level call and one subtask call per top-level
\* task (none for a subtask); with inclusion disabled it is the top-level tasks alone
\* and no subtask call is made
SubtaskFlattening ==
    task_cache.has =>
        LET val == task_cache.val
            n == Len(remote.top)
        IN /\ injectable => calls.top = 1
           /\ calls.top = 1 => calls.sub = (IF config.with_subtasks THEN n ELSE 0)
           /\ SubSeq(val, 1, n) = remote.top
           /\ SubSeq(val, n + 1, Len(val)) =
                 (IF config.with_subtasks THEN ConcatSubsFrom(remote.top, 1) ELSE <<>>)

\* C8 witness: two top-level tasks, one of them with a subtask, three records, three calls
SubtaskFlatteningWitness ==
    /\ task_cache.has /\ config.with_subtasks
    /\ Len(remote.top) = 2 /\ Len(task_cache.val) = 3
    /\ calls.top = 1 /\ calls.sub = 2

\* a run of synchronize() or export() has just returned
RunCompleted == pc = "idle" /\ run.op # "none" /\ last.op = run.op /\ last.status = "ok"

\* C9: the warning is printed exactly when the top-level call returned 50 records or
\* more, subtasks not counted; the call raises nothing, every record is kept, and a
\* run upserts every one of them
TruncationSignal ==
    /\ ~task_cache.has => warnings = 0
    /\ task_cache.has =>
          /\ warnings = (IF Len(remote.top) >= 50 THEN 1 ELSE 0)
          /\ SubSeq(task_cache.val, 1, Len(remote.top)) = remote.top
          /\ last.status \in {"ok", "running"}
    /\ RunCompleted =>
          /\ Len(OfKind(log, "upsert")) = Len(run.tasks)
          /\ IdsOf(run.tasks) \subseteq LocalIds

\* C9 witness: 50 top-level records, a warning, and a completed run with their rows
TruncationSignalWitness ==
    /\ RunCompleted /\ warnings = 1
    /\ Len(remote.top) = 50
    /\ Cardinality(LocalIds) >= 50

RECURSIVE DeclaredColumns(_)
\* the sql_names of a field list, in declaration order, the fields without one left out
DeclaredColumns(fs) ==
    IF fs = <<>> THEN <<>>
    ELSE IF Head(fs).sql_name = "" THEN DeclaredColumns(Tail(fs))
    ELSE <<Head(fs).sql_name>> \o DeclaredColumns(Tail(fs))

\* C10: the column list of every CREATE TABLE, of every upsert and of db_select_all()
\* is the sql_names of the direct fields in declaration order, with no column for an
\* indirect field
SchemaDeterminism ==
    \A i \in DOMAIN log :
        (log[i].kind \in {"create", "upsert"} \/ (log[i].kind = "read" /\ last.op = "db_select_all"))
            => /\ log[i].cols = DeclaredColumns(fields)
               /\ "" \notin Range(log[i].cols)

\* C10 witness: an indirect field declared first, and a select of the two columns
SchemaDeterminismWitness ==
    /\ Len(fields) = 3 /\ IsIndirect(fields[1])
    /\ last.op = "db_select_all" /\ last.status = "ok"
    /\ log[1].cols = <<"id", "name">>

\* C11: the projection sent with the top-level call and with every subtask call names
\* each attribute some direct or indirect field requires once, and no other attribute
ProjectionMinimality ==
    /\ calls.top + calls.sub > 0 => calls.sent # {}
    /\ \A p \in calls.sent :
          /\ \A i \in DOMAIN fields : \A a \in fields[i].required : a \in DOMAIN p /\ p[a] = 1
          /\ \A a \in DOMAIN p : \E i \in DOMAIN fields : a \in fields[i].required

\* C11 witness: two fields require "id", one of them indirect, and a top-level call
\* and a subtask call were made
ProjectionMinimalityWitness ==
    /\ \E i, j \in DOMAIN fields :
          i # j /\ IsIndirect(fields[j]) /\ "id" \in fields[i].required \cap fields[j].required
    /\ calls.top = 1 /\ calls.sub > 0
    /\ calls.sent # {}

\* an export() has just returned
ExportCompleted == RunCompleted /\ run.op = "export"

\* the positions of the statements of one kind in a log
PositionsOf(l, kind) == {i \in DOMAIN l : l[i].kind = kind}

\* the statements and extracts insert_or_replace() makes for the records of a list
WritesFor(tasks) ==
    Flatten([i \in DOMAIN tasks |-> <<UpsertStmt(tasks[i])>> \o IndirectExtracts(tasks[i])])

\* C12: a completed export() has upserted every fetched record and called every
\* indirect field's extract for each record, and every extract comes after all the
\* upserts of the run
ExportOrder ==
    ExportCompleted =>
        /\ OfKind(log, "upsert") = [i \in DOMAIN run.tasks |-> UpsertStmt(run.tasks[i])]
        /\ Len(OfKind(log, "extract")) = Len(run.tasks) * Len(indirect_fields)
        /\ \A i \in PositionsOf(log, "extract") : \A j \in PositionsOf(log, "upsert") : j < i

\* C12, as the code orders them: each record's extracts follow that record's upsert
\* and come before the next record's upsert
ExportOrderPerRecord ==
    ExportCompleted =>
        /\ log = WritesFor(run.tasks)
        /\ Len(OfKind(log, "extract")) = Len(run.tasks) * Len(indirect_fields)

\* an export() of two records under an indirect field has returned
ExportOrderWitness ==
    /\ ExportCompleted /\ Len(run.tasks) = 2 /\ indirect_fields # <<>>
    /\ Len(log) = 4 /\ log[2].kind = "extract" /\ log[3].kind = "upsert"

\* the rows after the store has run one statement: a refused statement, a read and
\* an extract leave them alone
Applied(rows, st) ==
    IF ~st.ok THEN rows
    ELSE IF st.kind = "upsert" THEN Upserted(rows, db.pk, RowOf(st.cols, st.params))
    ELSE IF st.kind = "delete" THEN Deleted(rows, st.cols[1], st.params[1])
    ELSE rows

RECURSIVE Replayed(_, _)
\* the rows after the store has run the statements of a log, in order
Replayed(rows, l) == IF l = <<>> THEN rows ELSE Replayed(Applied(rows, Head(l)), Tail(l))

\* a statement or an extract has failed in the last synchronize() or export()
RunFailed ==
    last.op \in {"synchronize", "export"} /\ last.status \in {"StoreError", "FieldError"}

\* C13: when a statement or an extract fails in export() or synchronize(), the run is
\* over at once: no loop is left to run, the refused statement was issued once and is
\* the last of the run, and the table holds what the completed statements made of it
NoCatchNoRetry ==
    RunFailed =>
        /\ pc = "idle" /\ todo = <<>> /\ ids_to_remove = {}
        /\ \A i \in DOMAIN log : ~log[i].ok => i = Len(log)
        /\ db.rows = Replayed(run.start_rows, log)

\* C13 witness: the second upsert of a synchronize() was refused: the first row
\* stays written, and the stale row, whose delete was never issued, stays too
NoCatchNoRetryWitness ==
    /\ RunFailed /\ last.op = "synchronize" /\ last.status = "StoreError"
    /\ log[2].kind = "upsert" /\ log[2].ok
    /\ log[Len(log)].kind = "upsert" /\ ~log[Len(log)].ok
    /\ Len(OfKind(log, "upsert")) = 2 /\ Len(run.tasks) = 2
    /\ run.stale # {} /\ run.stale \subseteq LocalIds
    /\ db.rows # run.start_rows

\* the operations that leave the rows alone
FrameOps == {"create_table", "tasks", "asana_task_ids", "db_task_ids", "db_select_all",
             "db_select_all_in_project", "table_name", "project_name"}

\* C14: create_table(), tasks(), asana_task_ids(), db_task_ids(), db_select_all(),
\* db_select_all_in_project(), table_name() and project_name() leave every row as it
\* was, the two selects hand no write statement to the store, and the rows change
\* only in a step of synchronize() or export(), or of the delete() they are built on
RowsFrame ==
    [][/\ last'.op \in FrameOps => db'.rows = db.rows
       /\ last'.op \in {"db_select_all", "db_select_all_in_project"} => Writes(log') = <<>>
       /\ db'.rows # db.rows => last'.op \in {"synchronize", "export", "delete"}
      ]_vars

\* C14 witness: create_table() ran over a table that holds rows, and they are there
RowsFrameWitness ==
    /\ last.op = "create_table" /\ last.status = "ok"
    /\ log = <<CreateStmt>>
    /\ db.rows # {}

\* the step is a call of table_name()
IsTableNameCall == pc = "idle" /\ last'.op = "table_name" /\ remote' = remote

\* C15: with a table name configured, table_name() returns the safe form of it and no
\* operation of the instance but project_name() itself fetches the project data; with none configured,
\* a table_name() call fetches the project data when none is cached, once, and every
\* call after a fetch that succeeded returns the same name with no further fetch
TableNameResolution ==
    [][IF config.table_name # NoName
       THEN /\ (last'.op # "project_name" /\ ~IsCrash) => calls'.project = calls.project
            /\ IsTableNameCall => /\ last'.status = "ok"
                                  /\ last'.value = sql_safe_name(config.table_name)
                                  /\ project_data_cache' = project_data_cache
       ELSE IsTableNameCall =>
                IF project_data_cache.has
                THEN /\ calls'.project = calls.project
                     /\ project_data_cache' = project_data_cache
                     /\ last'.status = "ok"
                     /\ last'.value = sql_safe_name(project_data_cache.val.name)
                ELSE /\ calls'.project = calls.project + 1
                     /\ IF remote.project.exists
                        THEN /\ project_data_cache' = Cached([name |-> remote.project.name])
                             /\ last'.status = "ok"
                             /\ last'.value = sql_safe_name(remote.project.name)
                        ELSE last'.status = "NoSuchProject"
      ]_vars

\* C15 witness: no name configured; table_name() was called after the remote project
\* had gone, made no second fetch and returned the name of the first one, "p_q"
TableNameResolutionWitness ==
    /\ config.table_name = NoName
    /\ last.op = "table_name" /\ last.status = "ok" /\ last.value = <<"p", "_", "q">>
    /\ ~remote.project.exists /\ last.at = changes /\ changes > 0
    /\ calls.project = 1

\* with a name configured, a run and table_name() made no project-data fetch
TableNameConfiguredWitness ==
    /\ config.table_name = ConfiguredName
    /\ last.op = "table_name" /\ last.value = <<"t", "_", "1">>
    /\ calls.project = 0 /\ calls.top > 0

\* C16: a completed synchronize() has issued one upsert per record of the fetched
\* list, in order, whether the row was in the table already or not, and one delete
\* per stale identity
AlwaysRewrite ==
    SyncCompleted =>
        /\ OfKind(log, "upsert") = [i \in DOMAIN run.tasks |-> UpsertStmt(run.tasks[i])]
        /\ Len(OfKind(log, "delete")) = Cardinality(run.local_ids \ IdsOf(run.tasks))
        /\ DeletedIds(log) = run.local_ids \ IdsOf(run.tasks)

\* C16 witness: the row of the first record was in the table before the run, as it
\* is after; the run upserted it all the same, and deleted a stale row
AlwaysRewriteWitness ==
    /\ SyncCompleted /\ run.tasks # <<>>
    /\ RowOf(columns, params_of(run.tasks[1])) \in run.start_rows
    /\ log[2] = UpsertStmt(run.tasks[1])
    /\ Len(OfKind(log, "delete")) = 1

RECURSIVE FirstSqlName(_)
\* the sql_name of the first field of a list that has one
FirstSqlName(fs) ==
    IF Head(fs).sql_name # "" THEN Head(fs).sql_name ELSE FirstSqlName(Tail(fs))

\* C17: the column db_task_ids() reads, in synchronize() too, and the column every
\* delete statement names is the sql_name of the first direct field in declaration
\* order, wherever the indirect fields are declared
IdentityColumn ==
    \A i \in DOMAIN log :
        \/ log[i].kind = "delete"
        \/ (log[i].kind = "read" /\ last.op \in {"db_task_ids", "synchronize"})
        => log[i].cols = <<FirstSqlName(fields)>>

\* C17 witness: an indirect field and then the name field come before the id field:
\* a synchronize() read the column "name" and deleted by it
IdentityColumnWitness ==
    /\ fields = <<ProjectsField, NameField, IdField>>
    /\ SyncCompleted
    /\ log[1].kind = "read" /\ log[1].cols = <<"name">>
    /\ log[Len(log)].kind = "delete" /\ log[Len(log)].cols = <<"name">>

\* the step is a method call that runs _tasks() from its start
IsTasksCall ==
    /\ pc = "idle" /\ remote' = remote
    /\ last'.op \in {"tasks", "asana_task_ids", "export"}

\* the step is a call of project_name(), which runs _project_data()
IsProjectDataCall == pc = "idle" /\ remote' = remote /\ last'.op = "project_name"

\* C18: a task fetch in which the top-level call or a subtask call fails caches
\* nothing, not even the top-level list, and a project-data fetch that ends with
\* not-found caches nothing; the next call of the instance, finding the cache empty,
\* fetches again from the first call
FailedFetchLeavesCacheEmpty ==
    [][/\ (calls'.top > calls.top /\ last'.status \in {"FetchError", "NotFoundError"})
            => task_cache' = NoTasks
       /\ (calls'.project > calls.project /\ last'.status = "NoSuchProject")
            => project_data_cache' = NoProjectData
       /\ (IsTasksCall /\ ~task_cache.has)
            => /\ calls'.top = calls.top + 1
               /\ last'.status = "ok" => (task_cache'.has /\ calls'.sub = calls.sub + NumTaskCalls - 1)
       /\ (IsProjectDataCall /\ ~project_data_cache.has)
            => calls'.project = calls.project + 1
      ]_vars

\* C18 witness: a subtask call failed after the top-level call had returned; the
\* next tasks() made the top-level call again and cached the whole list
FailedFetchWitness ==
    /\ config.with_subtasks /\ ~injectable
    /\ last.op = "tasks" /\ last.status = "ok"
    /\ calls.top = 2 /\ calls.sub = 1 + NumTaskCalls - 1
    /\ task_cache = Cached(FetchedTasks)

\* a project-data fetch ended with not-found, and so did the next one
FailedProjectFetchWitness ==
    /\ last.op = "project_name" /\ last.status = "NoSuchProject"
    /\ calls.project = 2 /\ ~project_data_cache.has

\* the rows of a set whose identity is not among the given ones
RowsOutside(rows, ids) == {r \in rows : r["id"] \notin ids}

\* C19: a completed export() has issued no delete, has left every row whose identity
\* is not among the fetched records as it was, and the stored identities are the
\* ones stored before together with the fetched ones
ExportKeepsRows ==
    ExportCompleted =>
        /\ OfKind(log, "delete") = <<>>
        /\ RowsOutside(db.rows, IdsOf(run.tasks)) = RowsOutside(run.start_rows, IdsOf(run.tasks))
        /\ LocalIds = run.local_ids \cup IdsOf(run.tasks)

\* C19 witness: the table held a row the remote does not list, the remote a record
\* the table did not hold, and both are there after export()
ExportKeepsRowsWitness ==
    /\ ExportCompleted
    /\ run.local_ids \ IdsOf(run.tasks) # {}
    /\ IdsOf(run.tasks) \ run.local_ids # {}
    /\ RowsOutside(db.rows, IdsOf(run.tasks)) # {}

\* C20: the table holds at most one row per identity in every state of every
\* sequence of export() and synchronize() runs, and when a completed run fetched an
\* identity more than once its row holds the values of the last record of it
OneRowPerIdentity ==
    /\ \A r1, r2 \in db.rows : r1["id"] = r2["id"] => r1 = r2
    /\ RunCompleted =>
          \A t \in LastOf(run.tasks) : RowOf(columns, params_of(t)) \in db.rows

\* C20 witness: a record was fetched as a top-level task and again, under another
\* name, as a subtask; its one row holds the subtask's name
OneRowPerIdentityWitness ==
    /\ RunCompleted
    /\ \E i, j \in DOMAIN run.tasks :
          /\ i < j /\ run.tasks[i].id = run.tasks[j].id /\ run.tasks[i].name # run.tasks[j].name
          /\ run.tasks[j] \in LastOf(run.tasks)
          /\ \E r \in db.rows : r["id"] = run.tasks[j].id /\ r["name"] = run.tasks[j].name
    /\ Cardinality(db.rows) = Cardinality(LocalIds)

====
